---- MODULE Spec2Model ----
(***************************************************************************)
(* The job acquisition / execution / reporting state machine of            *)
(* duckietown_challenges/runner.py: the driver dt_challenges_evaluator     *)
(* (continuous mode with backoff, explicit-list mode) and one pass go_.    *)
(***************************************************************************)
EXTENDS Integers, Sequences, FiniteSets, TLC

(* ------------------------------ bounds --------------------------------- *)

\* Number of jobs the server hands out during one run of the evaluator.
MaxJobs == 2
\* Longest list of submission ids given on the command line.
MaxSubs == 2

(* ----------------------------- constants ------------------------------- *)

None == "None"

\* The multiplier is a binary fraction (1.5^k, 10, 15): it is kept exactly,
\* in units of 1/Scale.
Scale == 2 ^ 6
\* runner.py:67
timeout == 5
\* runner.py:68, 74
InitialMultiplier == 1 * Scale
\* runner.py:69
max_multiplier == 10 * Scale

Min(a, b) == IF a <= b THEN a ELSE b

\* A job id is unique per unit of work: the server hands each out once.  The
\* ids are opaque, so the n-th job handed out is named JobName(n).
JobName(n) == <<"j1", "j2", "j3", "j4">>[n]
JobIds == {JobName(n) : n \in 1..MaxJobs}
SubIds == {"s1", "s2"}
EmptyMap == << >>
ScoreMaps == {EmptyMap, "score" :> 1}

\* challenge_results.ChallengeResultsStatus
SUCCESS == "success"
FAILED == "failed"
ERROR == "error"
Statuses == {SUCCESS, FAILED, ERROR}

\* challenge_results.ChallengeResults(status, msg, scores)
ChallengeResults(status, msg, scores) ==
    [status |-> status, msg |-> msg, scores |-> scores]
get_status(c) == c.status
get_stats(c) == c.scores

\* What read_challenge_results can return for a results file.
ReadableResults ==
    {ChallengeResults(s, "read", m) : s \in Statuses, m \in ScoreMaps}

\* The responses of the work-submission endpoint.
ChallengeParameters ==
    {[protocol |-> "p1", container |-> "c1"],
     [protocol |-> "p2", container |-> "c1"],
     [protocol |-> "p1"],
     [container |-> "c1"]}
\* A job response carries challenge_name, parameters.hash and
\* challenge_parameters, or lacks one of them.
JobResponses(j) ==
    {[job_id |-> j, challenge_name |-> "ch", parameters |-> [hash |-> "h"],
      challenge_parameters |-> cp] : cp \in ChallengeParameters}
    \cup
    {[job_id |-> j, parameters |-> [hash |-> "h"],
      challenge_parameters |-> [protocol |-> "p1", container |-> "c1"]],
     [job_id |-> j, challenge_name |-> "ch", parameters |-> [other |-> 1],
      challenge_parameters |-> [protocol |-> "p1", container |-> "c1"]],
     [job_id |-> j, challenge_name |-> "ch", parameters |-> [hash |-> "h"]]}
\* A response without job_id carries the server's msg, or does not.
NoJobResponses == {[msg |-> "no jobs"], [other |-> 1]}
\* The value of res before line 114 has assigned it.
NoResponse == [unassigned |-> TRUE]

\* runner.py:79, 82: the exceptions the while loop counts as failures, which are
\* what the calls outside the try block of go_ raise.
Failures == {"ConnectionError", "Exception"}

\* The command-line lists of submission ids (parsed.extra).
RECURSIVE SeqsUpTo(_, _)
SeqsUpTo(S, n) ==
    IF n = 0 THEN {<< >>}
    ELSE SeqsUpTo(S, n - 1) \cup
         {Append(s, x) : s \in {t \in SeqsUpTo(S, n - 1) : Len(t) = n - 1}, x \in S}

\* runner.py:90-93
Submissions(extra) == IF extra = << >> THEN <<None>> ELSE extra

\* runner.py:81, 85: multiplier *= 1.5
TimesOneAndHalf(m) == (m * 3) \div 2

VARIABLES
    continuous, do_pull, docker_username, extra, \* parsed command line, registry identity
    pc,               \* position of the process in dt_challenges_evaluator / go_
    multiplier,       \* backoff multiplier of continuous mode, in 1/Scale
    k,                \* number of submissions the for loop has taken
    submission_id,    \* argument of the current go_
    exc,              \* exception leaving go_ (None: returned)
    res, job_id, wd, evaluation_container, cr, artifacts_image, size, \* locals of go_
    nroots, subdirs, dockerfiles, manifests, LAST, \* the file system
    calls,            \* external calls of the current pass, in order
    lastReport,       \* arguments of the last dtserver_report_job call
    acquired, reported, \* per job id: acquisitions and report calls so far
    passes,           \* explicit-list mode: ids go_ was called with, in order
    outcome,          \* continuous mode: how the last pass ended
    slept,            \* continuous mode: multiplier of the last sleep (0: none)
    ret,              \* local of go_: exit status of the last docker-compose command
    read_failed,      \* the current pass: read_challenge_results raised
    results,          \* roots in whose results directory the containers wrote
    lpc, lwd, ljobs   \* two evaluators in one directory: position, root, jobs done

config == <<continuous, do_pull, docker_username, extra>>
locals == <<res, job_id, wd, evaluation_container, cr, artifacts_image, size>>
fs == <<nroots, subdirs, dockerfiles, manifests, LAST>>
history == <<lastReport, acquired, reported, passes, outcome, slept>>
more == <<ret, read_failed, results>>
race == <<lpc, lwd, ljobs>>
vars == <<config, pc, multiplier, k, submission_id, exc, locals, fs, calls, history,
          more, race>>

\* The evaluator processes that share a current directory.
Procs == {"p1", "p2"}
\* ret before any docker-compose command has run.
NoRet == 0 - 1

NoLocals ==
    /\ res' = NoResponse /\ job_id' = None /\ wd' = 0 /\ evaluation_container' = None
    /\ cr' = None /\ artifacts_image' = None /\ size' = None
    /\ ret' = NoRet /\ read_failed' = FALSE

\* runner.py:50-68: the state when the driver enters its loop.
Init ==
    /\ continuous \in BOOLEAN
    /\ do_pull \in BOOLEAN
    /\ docker_username \in {None, "user"}
    /\ extra \in (IF continuous THEN {<< >>} ELSE SeqsUpTo(SubIds, MaxSubs))
    /\ pc = IF continuous THEN "while" ELSE "for"
    /\ multiplier = InitialMultiplier
    /\ k = 0
    /\ submission_id = None
    /\ exc = None
    /\ res = NoResponse /\ job_id = None /\ wd = 0 /\ evaluation_container = None
    /\ cr = None /\ artifacts_image = None /\ size = None
    /\ nroots = 0 /\ subdirs = {} /\ dockerfiles = {} /\ manifests = {} /\ LAST = 0
    /\ calls = << >>
    /\ lastReport = None
    /\ acquired = [j \in JobIds |-> 0]
    /\ reported = [j \in JobIds |-> 0]
    /\ passes = << >>
    /\ outcome = None
    /\ slept = 0
    /\ ret = NoRet /\ read_failed = FALSE /\ results = {}
    /\ lpc = [p \in Procs |-> "off"]
    /\ lwd = [p \in Procs |-> 0]
    /\ ljobs = [p \in Procs |-> 0]

(* ------------------------------- go_ ----------------------------------- *)

Sizes == {0, 7}
Terminal == {"done", "crashed", "interrupted"}
TotalAcquired == Cardinality({j \in JobIds : acquired[j] > 0})

\* Leaving go_: by return (e = None) or by the exception e.
Leave(e) == pc' = "go_exit" /\ exc' = e

\* Entering go_(id, do_pull, docker_username): runner.py:73, 97.
Enter(id) ==
    /\ pc' = "token"
    /\ submission_id' = id
    /\ exc' = None
    /\ calls' = << >>
    /\ lastReport' = None
    /\ NoLocals

\* runner.py:107, 27-36: the token is read; an unreadable or unparsable file or a
\* missing key raises, outside the try block of go_.
GetToken ==
    /\ pc = "token"
    /\ \E ok \in BOOLEAN :
         IF ok THEN pc' = "acquire" /\ exc' = exc ELSE Leave("Exception")
    /\ UNCHANGED <<config, multiplier, k, submission_id, locals, fs, calls, history>>
    /\ UNCHANGED <<more, race>>

\* runner.py:116
HasJob(r) == "job_id" \in DOMAIN r

\* runner.py:117-118: no job is available.  The message of NothingLeft is
\* built from res['msg']: without that key the lookup raises KeyError instead.
NoJobs(r) ==
    /\ Leave(IF "msg" \in DOMAIN r THEN "NothingLeft" ELSE "Exception")
    /\ UNCHANGED <<job_id, wd, evaluation_container, cr, artifacts_image, size, acquired>>

\* runner.py:114-119: the acquisition call and the NothingLeft test.
WorkSubmission ==
    /\ pc = "acquire"
    /\ calls' = Append(calls, "work_submission")
    /\ \/ /\ \E e \in Failures : Leave(e)
          /\ UNCHANGED <<locals, acquired>>
       \/ \E r \in NoJobResponses \cup
                   (IF TotalAcquired < MaxJobs
                    THEN JobResponses(JobName(TotalAcquired + 1)) ELSE {}) :
            /\ res' = r
            /\ IF HasJob(r)
               THEN /\ job_id' = r.job_id
                    /\ acquired' = [acquired EXCEPT ![r.job_id] = @ + 1]
                    /\ pc' = "mkdtemp"
                    /\ UNCHANGED <<exc, wd, evaluation_container, cr, artifacts_image, size>>
               ELSE NoJobs(r)
    /\ UNCHANGED <<config, multiplier, k, submission_id, fs,
                   lastReport, reported, passes, outcome, slept>>
    /\ UNCHANGED <<more, race>>

\* A statement of the try block raises: control moves to the handler at line 266.
Raise == pc' = "except"

\* Mkdtemp with a fixed directory name instead of a generated one.
MkdtempFixedName ==
    /\ pc = "mkdtemp"
    /\ calls' = Append(calls, "mkdtemp")
    /\ \/ /\ nroots' = (IF nroots = 0 THEN 1 ELSE nroots)
          /\ wd' = 1
          /\ pc' = "lexists"
       \/ /\ Raise
          /\ UNCHANGED <<nroots, wd>>
    /\ UNCHANGED <<config, multiplier, k, submission_id, exc, res, job_id,
                   evaluation_container, cr, artifacts_image, size,
                   subdirs, dockerfiles, manifests, LAST, history>>
    /\ UNCHANGED <<more, race>>

\* runner.py:129
Mkdtemp ==
    /\ pc = "mkdtemp"
    /\ calls' = Append(calls, "mkdtemp")
    /\ \/ /\ nroots' = nroots + 1
          /\ wd' = nroots + 1
          /\ pc' = "lexists"
       \/ /\ Raise
          /\ UNCHANGED <<nroots, wd>>
    /\ UNCHANGED <<config, multiplier, k, submission_id, exc, res, job_id,
                   evaluation_container, cr, artifacts_image, size,
                   subdirs, dockerfiles, manifests, LAST, history>>
    /\ UNCHANGED <<more, race>>

\* runner.py:132
Lexists ==
    /\ pc = "lexists"
    /\ pc' = IF LAST # 0 THEN "unlink" ELSE "symlink"
    /\ UNCHANGED <<config, multiplier, k, submission_id, exc, locals, fs, calls, history>>
    /\ UNCHANGED <<more, race>>

\* runner.py:133
Unlink ==
    /\ pc = "unlink"
    /\ calls' = Append(calls, "unlink")
    /\ \/ LAST' = 0 /\ pc' = "symlink"
       \/ Raise /\ LAST' = LAST
    /\ UNCHANGED <<config, multiplier, k, submission_id, exc, locals,
                   nroots, subdirs, dockerfiles, manifests, history>>
    /\ UNCHANGED <<more, race>>

\* Symlink followed at once by the creation of the four subdirectories.
SymlinkAndMakedirs ==
    /\ pc = "symlink"
    /\ calls' = Append(calls, "symlink")
    /\ \/ LAST' = wd /\ subdirs' = subdirs \cup {wd} /\ pc' = "params"
       \/ Raise /\ LAST' = LAST /\ subdirs' = subdirs
    /\ UNCHANGED <<config, multiplier, k, submission_id, exc, locals,
                   nroots, dockerfiles, manifests, history>>
    /\ UNCHANGED <<more, race>>

\* runner.py:134
Symlink ==
    /\ pc = "symlink"
    /\ calls' = Append(calls, "symlink")
    /\ \/ LAST' = wd /\ pc' = "params"
       \/ Raise /\ LAST' = LAST
    /\ UNCHANGED <<config, multiplier, k, submission_id, exc, locals,
                   nroots, subdirs, dockerfiles, manifests, history>>
    /\ UNCHANGED <<more, race>>

\* ProtocolOk with the assertion left out.
ProtocolUnchecked(cp) == TRUE

\* runner.py:140-141: the protocol is read and asserted to be p1.  The test is
\* an assert statement: this is the program as run without python -O, which
\* would strip it.
ProtocolOk(cp) == "protocol" \in DOMAIN cp /\ cp.protocol = "p1"

\* runner.py:136-138: the keys of the response that are read first.
KeysPresent(r) ==
    /\ "challenge_name" \in DOMAIN r
    /\ "parameters" \in DOMAIN r
    /\ "hash" \in DOMAIN r.parameters
    /\ "challenge_parameters" \in DOMAIN r

\* Params with the validation outside the try block: its exception leaves go_.
ParamsOutsideTry ==
    /\ pc = "params"
    /\ IF /\ KeysPresent(res)
          /\ ProtocolOk(res.challenge_parameters)
          /\ "container" \in DOMAIN res.challenge_parameters
       THEN \/ /\ evaluation_container' = res.challenge_parameters.container
               /\ pc' = "makedirs" /\ exc' = exc
            \/ Leave("Exception") /\ evaluation_container' = evaluation_container
       ELSE Leave("Exception") /\ evaluation_container' = evaluation_container
    /\ UNCHANGED <<config, multiplier, k, submission_id, res, job_id, wd, cr,
                   artifacts_image, size, fs, calls, history>>
    /\ UNCHANGED <<more, race>>

\* runner.py:136-143: a missing key (KeyError) or another protocol
\* (AssertionError) raises inside the try block, and so does the print of
\* line 139 when standard output cannot be written; evaluation_container is
\* assigned last.
Params ==
    /\ pc = "params"
    /\ IF /\ KeysPresent(res)
          /\ ProtocolOk(res.challenge_parameters)
          /\ "container" \in DOMAIN res.challenge_parameters
       THEN \/ /\ evaluation_container' = res.challenge_parameters.container
               /\ pc' = "makedirs"
            \/ Raise /\ evaluation_container' = evaluation_container
       ELSE Raise /\ evaluation_container' = evaluation_container
    /\ UNCHANGED <<config, multiplier, k, submission_id, exc, res, job_id, wd, cr,
                   artifacts_image, size, fs, calls, history>>
    /\ UNCHANGED <<more, race>>

\* runner.py:145-155: getpass.getuser() raises when the process has no user
\* name (no passwd entry, no LOGNAME or USER), before any directory is made;
\* then the four subdirectories are created, or os.makedirs raises.
Makedirs ==
    /\ pc = "makedirs"
    /\ \/ Raise /\ calls' = calls /\ subdirs' = subdirs
       \/ /\ calls' = Append(calls, "makedirs")
          /\ \/ subdirs' = subdirs \cup {wd} /\ pc' = "dockerfile"
             \/ Raise /\ subdirs' = subdirs
    /\ UNCHANGED <<config, multiplier, k, submission_id, exc, locals,
                   nroots, dockerfiles, manifests, LAST, history>>
    /\ UNCHANGED <<more, race>>

\* runner.py:157-212: the manifest is rendered (157-204), and the byte-string
\* format raises under Python 2 when the hash or the container is not ASCII,
\* before the Dockerfile is opened; then the Dockerfile is written, or its
\* open or write raises.
WriteDockerfile ==
    /\ pc = "dockerfile"
    /\ \/ Raise /\ calls' = calls /\ dockerfiles' = dockerfiles
       \/ /\ calls' = Append(calls, "dockerfile")
          /\ \/ dockerfiles' = dockerfiles \cup {wd} /\ pc' = "compose"
             \/ Raise /\ dockerfiles' = dockerfiles
    /\ UNCHANGED <<config, multiplier, k, submission_id, exc, locals,
                   nroots, subdirs, manifests, LAST, history>>
    /\ UNCHANGED <<more, race>>

\* runner.py:214-220: the manifest is printed (line 216), which raises when
\* standard output cannot be written, and then written to its file.
WriteCompose ==
    /\ pc = "compose"
    /\ \/ Raise /\ calls' = calls /\ manifests' = manifests
       \/ /\ calls' = Append(calls, "compose")
          /\ \/ manifests' = manifests \cup {wd} /\ pc' = (IF do_pull THEN "pull" ELSE "up")
             \/ Raise /\ manifests' = manifests
    /\ UNCHANGED <<config, multiplier, k, submission_id, exc, locals,
                   nroots, subdirs, dockerfiles, LAST, history>>
    /\ UNCHANGED <<more, race>>

\* Pull with the exit status ignored.
PullIgnoresRet ==
    /\ pc = "pull"
    /\ calls' = Append(calls, "pull")
    /\ \E r \in {0, 1} : ret' = r /\ pc' = "up"
    /\ UNCHANGED <<config, multiplier, k, submission_id, exc, locals, fs, history>>
    /\ UNCHANGED <<read_failed, results, race>>

\* runner.py:220-225
Pull ==
    /\ pc = "pull"
    /\ calls' = Append(calls, "pull")
    /\ \E r \in {0, 1} : ret' = r /\ (IF r # 0 THEN Raise ELSE pc' = "up")
    /\ UNCHANGED <<config, multiplier, k, submission_id, exc, locals, fs, history>>
    /\ UNCHANGED <<read_failed, results, race>>

\* runner.py:227-231: the two containers run to completion; whatever the exit
\* status, the evaluator may have written into the results directory.
Up ==
    /\ pc = "up"
    /\ calls' = Append(calls, "up")
    /\ \E r \in {0, 1} : ret' = r /\ (IF r # 0 THEN Raise ELSE pc' = "extract")
    /\ \E written \in BOOLEAN : results' = (IF written THEN results \cup {wd} ELSE results)
    /\ UNCHANGED <<config, multiplier, k, submission_id, exc, locals, fs, history>>
    /\ UNCHANGED <<read_failed, race>>

\* runner.py:239-240, 269-270: the result synthesized for a failure.
Synthesized(msg) == ChallengeResults(ERROR, msg, EmptyMap)

\* Extract without the handler of lines 236-240: a failure of the reader
\* leaves go_ as it is.
ExtractUncaught ==
    /\ pc = "extract"
    /\ calls' = Append(calls, "read_challenge_results")
    /\ \/ /\ wd \in results
          /\ \E c \in ReadableResults : cr' = c
          /\ pc' = "publish"
          /\ exc' = exc
          /\ read_failed' = read_failed
       \/ /\ cr' = cr
          /\ Leave("Exception")
          /\ read_failed' = TRUE
    /\ UNCHANGED <<config, multiplier, k, submission_id, res, job_id, wd,
                   evaluation_container, artifacts_image, size, fs, history>>
    /\ UNCHANGED <<ret, results, race>>

\* runner.py:234-240: the results are read, which needs the containers to
\* have written them; a missing or malformed file makes the reader raise, and
\* that is caught here.  traceback.format_exc(e) at line 237 returns under
\* Python 2 and raises TypeError under Python 3, which leaves for the outer handler.
Extract ==
    /\ pc = "extract"
    /\ calls' = Append(calls, "read_challenge_results")
    /\ \/ /\ wd \in results
          /\ \E c \in ReadableResults : cr' = c
          /\ pc' = "publish"
          /\ read_failed' = read_failed
       \/ /\ cr' = Synthesized("Could not read the challenge results")
          /\ pc' = "publish"
          /\ read_failed' = TRUE
       \/ /\ cr' = cr
          /\ Raise
          /\ read_failed' = TRUE
    /\ UNCHANGED <<config, multiplier, k, submission_id, exc, res, job_id, wd,
                   evaluation_container, artifacts_image, size, fs, history>>
    /\ UNCHANGED <<ret, results, race>>

\* runner.py:242, 260-261
PublishCheck ==
    /\ pc = "publish"
    /\ pc' = IF docker_username # None THEN "build" ELSE "report"
    /\ UNCHANGED <<config, multiplier, k, submission_id, exc, locals, fs, calls, history>>
    /\ UNCHANGED <<more, race>>

\* runner.py:243-249: import docker or docker.from_env() raises before the
\* build call; the build call raises, or the print of its output does.
Build ==
    /\ pc = "build"
    /\ \/ Raise /\ calls' = calls
       \/ /\ calls' = Append(calls, "build")
          /\ \/ pc' = "get"
             \/ Raise
    /\ UNCHANGED <<config, multiplier, k, submission_id, exc, locals, fs, history>>
    /\ UNCHANGED <<more, race>>

\* runner.py:251-252
ImagesGet ==
    /\ pc = "get"
    /\ \/ artifacts_image' = "tag@id" /\ pc' = "size"
       \/ artifacts_image' = artifacts_image /\ Raise
    /\ UNCHANGED <<config, multiplier, k, submission_id, exc, res, job_id, wd,
                   evaluation_container, cr, size, fs, calls, history>>
    /\ UNCHANGED <<more, race>>

\* runner.py:254
ImageSize ==
    /\ pc = "size"
    /\ \/ \E n \in Sizes : size' = n /\ pc' = "push"
       \/ size' = size /\ Raise
    /\ UNCHANGED <<config, multiplier, k, submission_id, exc, res, job_id, wd,
                   evaluation_container, cr, artifacts_image, fs, calls, history>>
    /\ UNCHANGED <<more, race>>

\* runner.py:256-259: the print of line 256 raises when standard output
\* cannot be written, before the push call; or the push call returns or raises.
Push ==
    /\ pc = "push"
    /\ \/ Raise /\ calls' = calls
       \/ /\ calls' = Append(calls, "push")
          /\ \/ pc' = "report"
             \/ Raise
    /\ UNCHANGED <<config, multiplier, k, submission_id, exc, locals, fs, history>>
    /\ UNCHANGED <<more, race>>

\* Except with the exception raised again instead of being turned into a result.
ExceptReraise ==
    /\ pc = "except"
    /\ Leave("Exception")
    /\ UNCHANGED <<config, multiplier, k, submission_id, locals, fs, calls, history>>
    /\ UNCHANGED <<more, race>>

\* runner.py:266-270: every Exception of the try block ends here.
Except ==
    /\ pc = "except"
    /\ cr' = Synthesized("Uncaught exception")
    /\ pc' = "report"
    /\ UNCHANGED <<config, multiplier, k, submission_id, exc, res, job_id, wd,
                   evaluation_container, artifacts_image, size, fs, calls, history>>
    /\ UNCHANGED <<more, race>>

\* Stats with the artifacts entry always there, with null values when nothing was published.
StatsAlwaysArtifacts(c, image, sz) ==
    ("artifacts" :> [size |-> sz, image |-> image]) @@ get_stats(c)

\* runner.py:272-274: the assignment of line 274 replaces a score of that name.
Stats(c, image, sz) ==
    IF image # None
    THEN ("artifacts" :> [size |-> sz, image |-> image]) @@ get_stats(c)
    ELSE get_stats(c)

\* runner.py:272-283: the report call; it returns or raises, outside the try
\* block.
Report ==
    /\ pc = "report"
    /\ calls' = Append(calls, "report")
    /\ lastReport' = [job_id |-> job_id,
                      stats |-> Stats(cr, artifacts_image, size),
                      result |-> get_status(cr),
                      evaluation_container |-> evaluation_container]
    /\ reported' = [reported EXCEPT ![job_id] = @ + 1]
    /\ \E e \in {None} \cup Failures : Leave(e)
    /\ UNCHANGED <<config, multiplier, k, submission_id, locals, fs,
                   acquired, passes, outcome, slept>>
    /\ UNCHANGED <<more, race>>

(* ------------------------ dt_challenges_evaluator ---------------------- *)

\* runner.py:71
Capped(m) == Min(m, max_multiplier)

\* runner.py:70-73
While ==
    /\ pc = "while"
    /\ multiplier' = Capped(multiplier)
    /\ Enter(None)
    /\ UNCHANGED <<config, k, fs, acquired, reported, passes, outcome, slept>>
    /\ UNCHANGED <<results, race>>

\* runner.py:74-85: the multiplier after a pass that ended with e.
AfterPass(m, e) ==
    CASE e = None -> InitialMultiplier
      [] e = "NothingLeft" -> m
      [] OTHER -> TimesOneAndHalf(m)

\* runner.py:72-85: every way go_ can end has its handler.  The handler of
\* ConnectionError only logs, which cannot raise.  The handler of NothingLeft
\* writes to sys.stderr (line 76), which raises when that stream cannot be
\* written; the handler of Exception formats the exception into a byte string
\* (line 83), which raises under Python 2 when its message is not ASCII.  Both
\* raise inside the handler, out of the loop, before line 85 and the sleep.
ContinuousHandle ==
    /\ pc = "go_exit"
    /\ continuous
    /\ outcome' = (IF exc = None THEN "ok" ELSE exc)
    /\ \/ pc' = "sleep" /\ multiplier' = AfterPass(multiplier, exc)
       \/ /\ exc \in {"NothingLeft", "Exception"}
          /\ pc' = "crashed" /\ multiplier' = multiplier
    /\ exc' = None
    /\ NoLocals
    /\ UNCHANGED <<config, k, submission_id, fs, calls,
                   lastReport, acquired, reported, passes, slept>>
    /\ UNCHANGED <<results, race>>

\* runner.py:87
Sleep ==
    /\ pc = "sleep"
    /\ slept' = multiplier
    /\ pc' = "while"
    /\ UNCHANGED <<config, multiplier, k, submission_id, exc, locals, fs, calls,
                   lastReport, acquired, reported, passes, outcome>>
    /\ UNCHANGED <<more, race>>

\* runner.py:95-97
For ==
    /\ pc = "for"
    /\ IF k < Len(Submissions(extra))
       THEN /\ k' = k + 1
            /\ passes' = Append(passes, Submissions(extra)[k + 1])
            /\ Enter(Submissions(extra)[k + 1])
       ELSE /\ pc' = "done"
            /\ UNCHANGED <<k, passes, submission_id, exc, calls, lastReport, locals,
                           ret, read_failed>>
    /\ UNCHANGED <<config, multiplier, fs, acquired, reported, outcome, slept>>
    /\ UNCHANGED <<results, race>>

\* Caught with a handler for every exception.
CaughtAll(e) == TRUE

\* Caught with no handler for NothingLeft.
CaughtNothing(e) == FALSE

\* runner.py:98: the exceptions the for loop catches.
Caught(e) == e = "NothingLeft"

\* runner.py:96-99
ListHandle ==
    /\ pc = "go_exit"
    /\ ~continuous
    /\ pc' = (IF exc = None \/ Caught(exc) THEN "for" ELSE "crashed")
    /\ outcome' = (IF exc = None THEN "ok" ELSE exc)
    /\ exc' = None
    /\ NoLocals
    /\ UNCHANGED <<config, multiplier, k, submission_id, fs, calls,
                   lastReport, acquired, reported, passes, slept>>
    /\ UNCHANGED <<results, race>>

\* The operator's interrupt: KeyboardInterrupt is no Exception, no handler of
\* runner.py catches it, and the process ends wherever it is.  What the process
\* held in memory is gone; the files and what the server was told remain.
Interrupt ==
    /\ pc \notin Terminal
    /\ pc' = "interrupted"
    /\ multiplier' = InitialMultiplier /\ k' = 0 /\ submission_id' = None /\ exc' = None
    /\ NoLocals
    /\ calls' = << >> /\ lastReport' = None
    /\ passes' = << >> /\ outcome' = None /\ slept' = 0
    /\ UNCHANGED <<config, fs, acquired, reported>>
    /\ UNCHANGED <<results, race>>

Next ==
    \/ While \/ ContinuousHandle \/ Sleep
    \/ For \/ ListHandle
    \/ GetToken \/ WorkSubmission
    \/ Mkdtemp \/ Lexists \/ Unlink \/ Symlink \/ Params
    \/ Makedirs \/ WriteDockerfile \/ WriteCompose
    \/ Pull \/ Up \/ Extract
    \/ PublishCheck \/ Build \/ ImagesGet \/ ImageSize \/ Push
    \/ Except \/ Report
    \/ Interrupt

Spec == Init /\ [][Next]_vars

\* ---------------------------------------------------------------------------
\* Two evaluator processes in one current directory.  Each runs go_ on its own
\* jobs; the directory, and so the name 'last' (LAST) and the temporary roots
\* (nroots), is shared.  lpc[p] is the line process p is at, lwd[p] its wd,
\* ljobs[p] the jobs it has acquired.  Only the link replacement of lines
\* 129-134 is modelled: the rest of a job does not touch LAST.
\* ---------------------------------------------------------------------------

\* Jobs each of the two processes acquires.
MaxLinkJobs == 2

LinkInit ==
    /\ continuous = TRUE /\ do_pull = FALSE /\ docker_username = None /\ extra = << >>
    /\ pc = "while"
    /\ multiplier = InitialMultiplier
    /\ k = 0
    /\ submission_id = None
    /\ exc = None
    /\ res = NoResponse /\ job_id = None /\ wd = 0 /\ evaluation_container = None
    /\ cr = None /\ artifacts_image = None /\ size = None
    /\ nroots = 0 /\ subdirs = {} /\ dockerfiles = {} /\ manifests = {} /\ LAST = 0
    /\ calls = << >>
    /\ lastReport = None
    /\ acquired = [j \in JobIds |-> 0] /\ reported = [j \in JobIds |-> 0]
    /\ passes = << >> /\ outcome = None /\ slept = 0
    /\ ret = NoRet /\ read_failed = FALSE /\ results = {}
    /\ lpc = [p \in Procs |-> "work_submission"]
    /\ lwd = [p \in Procs |-> 0]
    /\ ljobs = [p \in Procs |-> 0]

\* What a step of one of the two processes leaves alone.
LinkFrame ==
    UNCHANGED <<config, pc, multiplier, k, submission_id, exc, locals,
                subdirs, dockerfiles, manifests, calls, history, more>>

\* runner.py:109-126 in process p: a job is acquired.
P_WorkSubmission(p) ==
    /\ lpc[p] = "work_submission"
    /\ ljobs[p] < MaxLinkJobs
    /\ ljobs' = [ljobs EXCEPT ![p] = @ + 1]
    /\ lpc' = [lpc EXCEPT ![p] = "mkdtemp"]
    /\ UNCHANGED <<nroots, LAST, lwd>>
    /\ LinkFrame

\* runner.py:129 in process p.
P_Mkdtemp(p) ==
    /\ lpc[p] = "mkdtemp"
    /\ nroots' = nroots + 1
    /\ lwd' = [lwd EXCEPT ![p] = nroots + 1]
    /\ lpc' = [lpc EXCEPT ![p] = "lexists"]
    /\ UNCHANGED <<LAST, ljobs>>
    /\ LinkFrame

\* runner.py:132 in process p.
P_Lexists(p) ==
    /\ lpc[p] = "lexists"
    /\ lpc' = [lpc EXCEPT ![p] = IF LAST # 0 THEN "unlink" ELSE "symlink"]
    /\ UNCHANGED <<nroots, LAST, lwd, ljobs>>
    /\ LinkFrame

\* runner.py:133 in process p: os.unlink raises OSError when the name is gone.
P_Unlink(p) ==
    /\ lpc[p] = "unlink"
    /\ IF LAST # 0
         THEN LAST' = 0 /\ lpc' = [lpc EXCEPT ![p] = "symlink"]
         ELSE LAST' = LAST /\ lpc' = [lpc EXCEPT ![p] = "except"]
    /\ UNCHANGED <<nroots, lwd, ljobs>>
    /\ LinkFrame

\* runner.py:134 in process p: os.symlink raises OSError when the name exists.
P_Symlink(p) ==
    /\ lpc[p] = "symlink"
    /\ IF LAST = 0
         THEN LAST' = lwd[p] /\ lpc' = [lpc EXCEPT ![p] = "linked"]
         ELSE LAST' = LAST /\ lpc' = [lpc EXCEPT ![p] = "except"]
    /\ UNCHANGED <<nroots, lwd, ljobs>>
    /\ LinkFrame

\* runner.py:136-276 in process p, after the link was replaced: the rest of the
\* job and its report.
P_Rest(p) ==
    /\ lpc[p] = "linked"
    /\ lpc' = [lpc EXCEPT ![p] = "work_submission"]
    /\ UNCHANGED <<nroots, LAST, lwd, ljobs>>
    /\ LinkFrame

\* runner.py:266-276 in process p: the OSError of the link replacement becomes
\* an ERROR result, which is reported.
P_Except(p) ==
    /\ lpc[p] = "except"
    /\ lpc' = [lpc EXCEPT ![p] = "work_submission"]
    /\ UNCHANGED <<nroots, LAST, lwd, ljobs>>
    /\ LinkFrame

LinkNext ==
    \E p \in Procs :
        \/ P_WorkSubmission(p) \/ P_Mkdtemp(p) \/ P_Lexists(p)
        \/ P_Unlink(p) \/ P_Symlink(p) \/ P_Rest(p) \/ P_Except(p)

LinkSpec == LinkInit /\ [][LinkNext]_vars

(* ------------------------------ properties ----------------------------- *)

Count(name) == Cardinality({i \in DOMAIN calls : calls[i] = name})
InCalls(name) == \E i \in DOMAIN calls : calls[i] = name
\* go_ has been left and the driver has not yet handled how.
PassLeft == pc = "go_exit"
IsPrefix(s, t) == Len(s) <= Len(t) /\ \A i \in DOMAIN s : s[i] = t[i]

\* C1: every acquired job gets exactly one report call, whichever later stage
\* fails: a job is never reported more often than it was acquired, and unless
\* the operator interrupted the process only the job of the running pass can
\* lack its report; when the pass is left, it has made one report call, for
\* its job, and no job lacks a report.
C1_ExactlyOneReport ==
    /\ \A j \in JobIds : reported[j] <= acquired[j]
    /\ Count("report") <= 1
    /\ pc # "interrupted" =>
         \A j \in JobIds : reported[j] >= acquired[j] - (IF job_id = j THEN 1 ELSE 0)
    /\ (PassLeft /\ job_id # None) =>
         /\ Count("report") = 1
         /\ lastReport.job_id = job_id
         /\ \A j \in JobIds : reported[j] = acquired[j]

\* A job whose push failed has left the pass with its one report.
C1_Witness ==
    /\ PassLeft /\ job_id # None
    /\ calls[Len(calls)] = "report" /\ calls[Len(calls) - 1] = "push"
    /\ cr.msg = "Uncaught exception"
    /\ reported[job_id] = 1

\* C2: once the acquisition response is there and has no job_id, the pass is
\* over with NothingLeft, and the acquisition call is the only thing the pass
\* did: no report, no workspace, no unlink or symlink of the link, no pull or up.
C2_NothingLeftDoesNothing ==
    ("unassigned" \notin DOMAIN res /\ ~HasJob(res)) =>
        /\ PassLeft
        /\ exc = "NothingLeft"
        /\ calls = <<"work_submission">>
        /\ job_id = None /\ wd = 0

\* The protocol a response names (None: it names none).
ProtocolOf(r) ==
    IF "challenge_parameters" \in DOMAIN r /\ "protocol" \in DOMAIN r.challenge_parameters
    THEN r.challenge_parameters.protocol ELSE None

\* C3: a job whose protocol is not p1 never gets a container command, the
\* extractor or the publisher, and leaves the pass with one report, of status ERROR.
C3_BadProtocol ==
    (/\ "job_id" \in DOMAIN res
     /\ \/ "challenge_parameters" \notin DOMAIN res
        \/ "protocol" \notin DOMAIN res.challenge_parameters
        \/ res.challenge_parameters.protocol # "p1") =>
        /\ \A c \in {"pull", "up", "read_challenge_results", "build", "push"} : ~InCalls(c)
        /\ PassLeft =>
             /\ Count("report") = 1
             /\ lastReport.job_id = job_id
             /\ lastReport.result = ERROR

\* A job of protocol p2 has been reported.
C3_Witness ==
    /\ PassLeft /\ HasJob(res)
    /\ ProtocolOf(res) = "p2"
    /\ do_pull
    /\ lastReport.result = ERROR

\* C4: in continuous mode the loop ends by the operator's interrupt only: no
\* step ends it otherwise, every way of leaving go_ leads to the sleep, the
\* sleep to the top of the loop, and the top of the loop to the next pass.
C4_ContinuousNeverEnds ==
    [][continuous =>
         /\ pc' \notin {"done", "crashed"}
         /\ (pc = "go_exit" /\ pc' # "interrupted") => pc' = "sleep"
         /\ (pc = "sleep" /\ pc' # "interrupted") => pc' = "while"
         /\ (pc = "while" /\ pc' # "interrupted") => pc' = "token"]_vars

\* C5: the multiplier of every sleep is at most 10.
C5_SleepAtMostTen == pc = "sleep" => multiplier <= max_multiplier

\* C6: the sleep after a pass that returned or ended with NothingLeft uses
\* multiplier 1.
C6_ResetAfterNonFailure ==
    (pc = "sleep" /\ outcome \in {"ok", "NothingLeft"}) => multiplier = InitialMultiplier

\* C7: across consecutive failed passes the multiplier never decreases: when
\* a pass fails right after a failed pass, the multiplier the loop body holds is
\* not below the one the previous failure left.
C7_NonDecreasing ==
    (continuous /\ PassLeft /\ exc \in Failures /\ outcome \in Failures) =>
        multiplier >= slept

\* C8 as stated: when the for loop is over, every listed id has had its pass.
C8_EveryIdHasItsPass ==
    (~continuous /\ pc \in {"done", "crashed"}) => passes = Submissions(extra)

\* C8 amended: the passes are the listed ids in list order, each taken once;
\* after a pass that returned or ended with NothingLeft the loop goes on, and it
\* ends normally only after the last id's pass; it ends early only by an
\* exception other than NothingLeft leaving a pass.
C8_ListOrder ==
    ~continuous =>
        /\ IsPrefix(passes, Submissions(extra))
        /\ Len(passes) = k
        /\ pc = "done" => passes = Submissions(extra)
        /\ pc = "crashed" => outcome \in Failures
        /\ (pc = "for" /\ k > 0) => outcome \in {"ok", "NothingLeft"}

\* The first id's pass ended with NothingLeft and the second id is being tried.
C8_Witness ==
    /\ ~continuous /\ pc = "token"
    /\ outcome = "NothingLeft"
    /\ passes = <<"s2", "s1">>

\* C9: no acquisition call is made while an acquired job lacks its report.
C9_Sequential ==
    (\E j \in JobIds : reported[j] # acquired[j]) => pc \notin {"token", "acquire"}

\* A second job has been acquired, after the first one was reported.
C9_Witness ==
    /\ pc = "mkdtemp"
    /\ TotalAcquired = 2
    /\ reported["j1"] + reported["j2"] = 1

\* C10: when the publisher has failed, the result the extractor produced stays
\* the result of the job: the handler of the failure does not replace cr, and
\* the report call carries its status and scores.
C10_ResultKept ==
    [][(InCalls("build") /\ pc \in {"except", "report"}) =>
         /\ pc = "except" => cr' = cr
         /\ (pc = "report" /\ pc' = "go_exit") =>
              /\ lastReport'.result = get_status(cr)
              /\ \A n \in DOMAIN get_stats(cr) :
                   n \in DOMAIN lastReport'.stats /\ lastReport'.stats[n] = get_stats(cr)[n]]_vars

\* The publisher was invoked and one of its steps raised.
PublisherFailed == PassLeft /\ InCalls("build") /\ cr.msg = "Uncaught exception"
HasArtifacts(report) == "artifacts" \in DOMAIN report.stats
\* The call made right before the call at position i of the pass.
Before(i) == IF i > 1 THEN calls[i - 1] ELSE None

\* C11: the report of a job one of whose publishing steps failed has no
\* artifacts entry.
C11_NoArtifactsOnFailure ==
    PublisherFailed => ~HasArtifacts(lastReport)

\* C12: without a registry identity no job is built or pushed and no report
\* has an artifacts entry.
C12_NoIdentityNoArtifacts ==
    docker_username = None =>
        /\ ~InCalls("build") /\ ~InCalls("push")
        /\ artifacts_image = None
        /\ (PassLeft /\ job_id # None) =>
             /\ ~HasArtifacts(lastReport)
             /\ lastReport.stats = get_stats(cr)

\* Without a registry identity, a job with a score has been reported.
C12_Witness ==
    /\ docker_username = None
    /\ PassLeft /\ job_id # None
    /\ InCalls("read_challenge_results")
    /\ lastReport.result = SUCCESS
    /\ lastReport.stats = ("score" :> 1)

\* C13: a job whose up step exits non-zero is reported with status ERROR, and
\* when the containers had written results the extractor is still attempted.
C13_UpFailure ==
    (PassLeft /\ InCalls("up") /\ ret # 0) =>
        /\ lastReport.result = ERROR
        /\ wd \in results => InCalls("read_challenge_results")

\* C14: pull runs only when pulling is enabled, and then right before up; up
\* starts only after a pull that exited with zero or, with pulling disabled, as
\* the first container command; a job whose pull exited non-zero never gets up
\* and is reported once, with status ERROR.
C14_PullThenUp ==
    /\ InCalls("pull") => do_pull
    /\ Count("pull") <= 1 /\ Count("up") <= 1
    /\ pc = "up" => ret = (IF do_pull THEN 0 ELSE NoRet)
    /\ \A i \in DOMAIN calls :
         /\ calls[i] = "up" => Before(i) = (IF do_pull THEN "pull" ELSE "compose")
         /\ calls[i] = "pull" => Before(i) = "compose"
    /\ (InCalls("pull") /\ ~InCalls("up") /\ ret \notin {0, NoRet}) =>
         /\ pc \in {"except", "report", "go_exit"}
         /\ PassLeft => (Count("report") = 1 /\ lastReport.result = ERROR)

\* A job whose pull exited non-zero has been reported.
C14_Witness ==
    /\ PassLeft /\ do_pull
    /\ InCalls("pull") /\ ~InCalls("up") /\ ret = 1
    /\ lastReport.result = ERROR

\* C15: a failure of the reader never leaves go_; the job is reported once,
\* with status ERROR and an empty scores mapping.
C15_ReaderContained ==
    read_failed =>
        /\ pc \in {"publish", "build", "get", "size", "push", "except", "report", "go_exit"}
        /\ PassLeft =>
             /\ exc \in {None} \cup Failures
             /\ calls[Len(calls)] = "report" /\ Count("report") = 1
             /\ lastReport.job_id = job_id
             /\ lastReport.result = ERROR
             /\ get_stats(cr) = EmptyMap
             /\ \A n \in DOMAIN lastReport.stats : n = "artifacts"

\* The reader raised, the image was pushed all the same, and the job was reported.
C15_Witness ==
    /\ PassLeft /\ read_failed
    /\ InCalls("push")
    /\ cr.msg = "Could not read the challenge results"
    /\ HasArtifacts(lastReport)

\* C16: pull and up start only in a complete workspace: the root is the one
\* generated last, with its subdirectories, descriptor and manifest; a root is
\* new when it is generated (no earlier job had it, nothing is in it), the
\* subdirectories are created in a root that had none, and a pass in which
\* pull or up was called has created, rendered and written all of it before: a
\* preparation step that raises, before or after opening its file, leads to
\* neither.
C16_WorkspaceComplete ==
    [][/\ pc' \in {"pull", "up"} =>
            /\ wd' >= 1 /\ wd' = nroots'
            /\ wd' \in subdirs' /\ wd' \in dockerfiles' /\ wd' \in manifests'
       /\ (wd' # wd /\ wd' # 0) =>
            /\ wd' > nroots
            /\ wd' \notin (subdirs \cup dockerfiles \cup manifests \cup results)
       /\ subdirs' # subdirs => (wd \notin subdirs /\ subdirs' = subdirs \cup {wd})
       /\ (wd' # 0 /\ \E i \in DOMAIN calls' : calls'[i] \in {"pull", "up"}) =>
            /\ wd' \in subdirs' /\ wd' \in dockerfiles' /\ wd' \in manifests'
            /\ \A c \in {"makedirs", "dockerfile", "compose"} :
                 \E j \in DOMAIN calls' : calls'[j] = c]_vars

\* The second job starts its containers in its own complete root.
C16_Witness ==
    /\ pc = "up" /\ wd = 2
    /\ 1 \in manifests /\ 2 \in manifests /\ 2 \in subdirs /\ 2 \in dockerfiles

\* C17: with two processes in one current directory, no interleaving makes
\* the link replacement of either fail (which would make its job an ERROR),
\* and when both have replaced the link it points at one of their two roots.
C17_AtomicLink ==
    /\ \A p \in Procs : lpc[p] # "except"
    /\ (\A p \in Procs : lpc[p] = "linked") => LAST \in {lwd[p] : p \in Procs}

\* C18 as stated: when the protocol check is reached, the root contains the
\* four subdirectories.
C18_SubdirsBeforeProtocol == pc = "params" => wd \in subdirs

\* C18 amended: the steps run in the order root, link, protocol check,
\* subdirectories, descriptor, manifest; when the protocol check is reached the
\* root exists and the link points at it, but it has no subdirectories yet, and
\* a job whose protocol is not p1 never gets them.
C18_ProtocolBeforeSubdirs ==
    /\ pc = "params" => (wd >= 1 /\ wd = nroots /\ LAST = wd /\ wd \notin subdirs)
    /\ pc \in {"makedirs", "dockerfile", "compose"} => ProtocolOf(res) = "p1"
    /\ wd \in subdirs => ProtocolOf(res) = "p1"
    /\ \A i \in DOMAIN calls :
         /\ calls[i] = "mkdtemp" => Before(i) = "work_submission"
         /\ calls[i] = "unlink" => Before(i) = "mkdtemp"
         /\ calls[i] = "symlink" => Before(i) \in {"mkdtemp", "unlink"}
         /\ calls[i] = "makedirs" => Before(i) = "symlink"
         /\ calls[i] = "dockerfile" => Before(i) = "makedirs"
         /\ calls[i] = "compose" => Before(i) = "dockerfile"

\* A job of protocol p2 has been reported; its root has no subdirectories.
C18_Witness ==
    /\ PassLeft /\ HasJob(res)
    /\ ProtocolOf(res) = "p2"
    /\ wd = 2 /\ LAST = 2 /\ 2 \notin subdirs /\ 1 \in subdirs

\* The multiplier of the sleep before the last pass, as the loop top left it.
BeforePass == IF slept = 0 THEN InitialMultiplier ELSE Min(slept, max_multiplier)

\* C19: in continuous mode a pass that acquired a job ends with the report
\* call whatever stage failed, and if that call returned the sleep uses
\* multiplier 1; the multiplier is above the one before the pass only after a
\* pass that an exception left, and an exception leaves a pass only when the
\* token read (no call made yet), the acquisition call (no response assigned)
\* or the report call raised.
C19_JobFailureNoBackoff ==
    /\ (continuous /\ pc = "sleep") =>
          /\ InCalls("mkdtemp") => calls[Len(calls)] = "report"
          /\ (InCalls("report") /\ outcome = "ok") => multiplier = InitialMultiplier
          /\ multiplier > BeforePass => outcome \in Failures
    /\ (continuous /\ PassLeft /\ exc \in Failures) =>
          \/ calls = << >>
          \/ calls[Len(calls)] = "work_submission" /\ "unassigned" \in DOMAIN res
          \/ calls[Len(calls)] = "report"

\* C20: in explicit-list mode an exception other than NothingLeft that leaves
\* a pass ends the loop: after such a pass the process is over, with the later
\* ids untried; an exception leaves go_ only before the try block (the token
\* read, the acquisition call and the reading of its response) or from the
\* report call.
C20_ListModeStops ==
    ~continuous =>
        /\ outcome \in Failures =>
             /\ pc = "crashed"
             /\ passes = SubSeq(Submissions(extra), 1, k)
        /\ (PassLeft /\ exc \in Failures) =>
             (calls = << >> \/ calls[Len(calls)] \in {"work_submission", "report"})

\* The report call of the first of two ids raised, and the second id got no pass.
C20_Witness ==
    /\ ~continuous /\ pc = "crashed"
    /\ outcome = "ConnectionError" /\ InCalls("report")
    /\ Len(passes) = 1 /\ Len(extra) = 2

====
